---- MODULE Spec2Model ----
(***************************************************************************)
(* A model of conx's layer graph (layers.py: BaseLayer / Layer), of the    *)
(* graph queries find_path and topological_sort (utils.py) and of the      *)
(* nested-structure shape engine types / collapse / get_shape / shape      *)
(* (utils.py).                                                             *)
(***************************************************************************)
EXTENDS Integers, Sequences, FiniteSets, TLC

\* ------------------------------------------------------------------------
\* Bounds of the model

\* the largest number of connect() calls on one network
MaxConnections == 3
\* the longest list of layers handed to topological_sort
MaxLayers == 2
\* the largest number of connect() calls on a network that serves several
\* queries in a row or at a time
MaxSharedConnections == 2
\* the same, and the longest list of layers, for a network that serves two
\* queries at a time
MaxConcConnections == 1
MaxConcLayers == 2

\* the most nodes (lists and leaves) of a nested input of the shape engine
MaxSize == 5
\* the most nodes of a structure of types handed to collapse directly
MaxStructSize == 5
\* the largest dimension and the most dimensions of a rectangular input
MaxDim == 3
MaxRank == 3
\* the most entries of a tuple or list handed to Layer as its shape
MaxShapeLen == 2

\* the layer names a network may register
Names == {"a", "b", "c"}
\* the layer names of a network that serves two queries at a time
ConcNames == {"a", "b"}
\* the invocations of topological_sort that may be in progress
Procs == {1, 2}
\* the value of a lookup that found no key (Python None)
NoKey == "None"
\* find_path returning None, where a path is a list of layer names
Absent == <<NoKey>>

VARIABLES
    net_layers,             \* net.layers: the names of the registered layers
    incoming_connections,   \* layer.incoming_connections, by layer name
    outgoing_connections,   \* layer.outgoing_connections, by layer name
    visited,                \* layer.visited, by layer name
    ts,                     \* the topological_sort invocations, by process
    fp,                     \* the find_path invocation
    engine,                 \* the call of the shape engine under way
    made                    \* the last call of the constructor Layer(...)

graph_vars == <<net_layers, incoming_connections, outgoing_connections>>

\* ------------------------------------------------------------------------
\* Sequence helpers

RECURSIVE Reverse(_)
Reverse(s) == IF s = <<>> THEN <<>> ELSE Append(Reverse(Tail(s)), Head(s))

Range(s) == {s[i] : i \in 1..Len(s)}

\* the lists over S of length 0..n
SeqsUpTo(S, n) == UNION {[1..k -> S] : k \in 0..n}

\* the number of connect() calls made so far
NumConnections ==
    LET RECURSIVE Sum(_)
        Sum(S) == IF S = {} THEN 0
                  ELSE LET n == CHOOSE n \in S : TRUE
                       IN Len(outgoing_connections[n]) + Sum(S \ {n})
    IN Sum(Names)

\* ------------------------------------------------------------------------
\* layers.py: BaseLayer

\* kind with the tests for input and output exchanged
kind_mut(inc, out) ==
    IF Len(inc) = 0 /\ Len(out) = 0 THEN "unconnected"
    ELSE IF Len(inc) > 0 /\ Len(out) > 0 THEN "hidden"
    ELSE IF Len(out) > 0 THEN "output"
    ELSE "input"

\* BaseLayer.kind, from the two connection lists of a layer
kind(inc, out) ==
    IF Len(inc) = 0 /\ Len(out) = 0 THEN "unconnected"
    ELSE IF Len(inc) > 0 /\ Len(out) > 0 THEN "hidden"
    ELSE IF Len(inc) > 0 THEN "output"
    ELSE "input"

\* Layer.__init__ with a shape it accepts, followed by the registration of
\* the layer in the network (shape and size play no part in the queries on
\* the graph): a new layer has two empty connection lists and no visited
\* attribute yet
AddLayer(name) ==
    /\ name \notin net_layers
    /\ \A p \in Procs : ts[p].pc = "idle"
    /\ fp.pc = "idle"
    /\ net_layers' = net_layers \cup {name}
    /\ incoming_connections' = [incoming_connections EXCEPT ![name] = <<>>]
    /\ outgoing_connections' = [outgoing_connections EXCEPT ![name] = <<>>]
    /\ visited' = [visited EXCEPT ![name] = "unset"]
    /\ UNCHANGED <<ts, fp, engine, made>>

\* connect(from, to): both names registered; appends to both lists
Connect(from, to) ==
    /\ from \in net_layers
    /\ to \in net_layers
    /\ NumConnections < MaxConnections
    /\ \A p \in Procs : ts[p].pc = "idle"
    /\ fp.pc = "idle"
    /\ outgoing_connections' =
           [outgoing_connections EXCEPT ![from] = Append(@, to)]
    /\ incoming_connections' =
           [incoming_connections EXCEPT ![to] = Append(@, from)]
    /\ UNCHANGED <<net_layers, visited, ts, fp, engine, made>>

\* ------------------------------------------------------------------------
\* utils.py: find_path, one iteration of a loop per step

FpIdle == [pc |-> "idle", start |-> NoKey, end |-> NoKey, queue |-> <<>>,
           get_to |-> [n \in Names |-> NoKey], current |-> NoKey,
           found |-> FALSE, retval |-> <<>>, result |-> <<>>]

\* the inner for loop without its test "layer_name not in get_to"
RECURSIVE Expand_mut(_, _, _, _)
Expand_mut(expand, current, get_to, queue) ==
    IF expand = <<>> THEN [get_to |-> get_to, queue |-> queue]
    ELSE LET layer_name == Head(expand)
         IN Expand_mut(Tail(expand), current,
                       [get_to EXCEPT ![layer_name] = current],
                       Append(queue, layer_name))

\* the inner for loop: the names of expand not yet in get_to are recorded
\* with the current name as their predecessor and queued, in list order
RECURSIVE Expand(_, _, _, _)
Expand(expand, current, get_to, queue) ==
    IF expand = <<>> THEN [get_to |-> get_to, queue |-> queue]
    ELSE LET layer_name == Head(expand)
         IN IF get_to[layer_name] = NoKey
            THEN Expand(Tail(expand), current,
                        [get_to EXCEPT ![layer_name] = current],
                        Append(queue, layer_name))
            ELSE Expand(Tail(expand), current, get_to, queue)

\* find_path(net, start_layer, end_layer) is entered
FindPathEnter(start_layer, end_layer) ==
    /\ fp.pc = "idle"
    /\ start_layer \in net_layers
    /\ end_layer \in net_layers
    /\ fp' = [FpIdle EXCEPT !.pc = "while", !.start = start_layer,
                            !.end = end_layer, !.queue = <<start_layer>>]
    /\ UNCHANGED <<graph_vars, visited, ts, engine, made>>

\* find_path(net, start_layer, end_layer) is called while no topological_sort
\* is under way
FindPathCall(start_layer, end_layer) ==
    /\ \A p \in Procs : ts[p].pc = "idle"
    /\ FindPathEnter(start_layer, end_layer)

\* the search setting the marker layer.visited of every layer it dequeues
FindPathWhile_mut ==
    /\ fp.pc = "while"
    /\ IF fp.queue = <<>>
       THEN fp' = [fp EXCEPT !.pc = "if_found"] /\ visited' = visited
       ELSE LET current == Head(fp.queue)
                rest == Tail(fp.queue)
            IN /\ visited' = [visited EXCEPT ![current] = "True"]
               /\ IF current = fp.end
                  THEN fp' = [fp EXCEPT !.current = current, !.queue = rest,
                                        !.found = TRUE, !.pc = "if_found"]
                  ELSE LET e == Expand(outgoing_connections[current], current,
                                       fp.get_to, rest)
                       IN fp' = [fp EXCEPT !.current = current,
                                           !.get_to = e.get_to,
                                           !.queue = e.queue]
    /\ UNCHANGED <<graph_vars, ts, engine, made>>

\* one test of "while queue" and, when the queue is not empty, its body
FindPathWhile ==
    /\ fp.pc = "while"
    /\ IF fp.queue = <<>>
       THEN fp' = [fp EXCEPT !.pc = "if_found"]
       ELSE LET current == Head(fp.queue)
                rest == Tail(fp.queue)
            IN IF current = fp.end
               THEN fp' = [fp EXCEPT !.current = current, !.queue = rest,
                                     !.found = TRUE, !.pc = "if_found"]
               ELSE LET e == Expand(outgoing_connections[current], current,
                                    fp.get_to, rest)
                    IN fp' = [fp EXCEPT !.current = current,
                                        !.get_to = e.get_to,
                                        !.queue = e.queue]
    /\ UNCHANGED <<graph_vars, visited, ts, engine, made>>

\* the walk back started without the test "if found"
FindPathIfFound_mut ==
    /\ fp.pc = "if_found"
    /\ fp' = [fp EXCEPT !.retval = <<>>, !.pc = "walk"]
    /\ UNCHANGED <<graph_vars, visited, ts, engine, made>>

\* "if found": the walk back starts, or the function falls off its end and
\* returns None
FindPathIfFound ==
    /\ fp.pc = "if_found"
    /\ IF fp.found
       THEN fp' = [fp EXCEPT !.retval = <<>>, !.pc = "walk"]
       ELSE fp' = [fp EXCEPT !.result = Absent, !.pc = "done"]
    /\ UNCHANGED <<graph_vars, visited, ts, engine, made>>

\* the walk back returning retval as collected, not reversed
FindPathWalk_mut ==
    /\ fp.pc = "walk"
    /\ IF fp.current # fp.start
       THEN IF fp.get_to[fp.current] = NoKey
            THEN fp' = [fp EXCEPT !.pc = "raised"]
            ELSE fp' = [fp EXCEPT !.retval = Append(@, fp.current),
                                  !.current = fp.get_to[fp.current]]
       ELSE fp' = [fp EXCEPT !.result = fp.retval, !.pc = "done"]
    /\ UNCHANGED <<graph_vars, visited, ts, engine, made>>

\* one test of "while current != start_layer" and its body; a name missing
\* from get_to raises KeyError; after the loop, reversed(retval) is returned
FindPathWalk ==
    /\ fp.pc = "walk"
    /\ IF fp.current # fp.start
       THEN IF fp.get_to[fp.current] = NoKey
            THEN fp' = [fp EXCEPT !.pc = "raised"]
            ELSE fp' = [fp EXCEPT !.retval = Append(@, fp.current),
                                  !.current = fp.get_to[fp.current]]
       ELSE fp' = [fp EXCEPT !.result = Reverse(fp.retval), !.pc = "done"]
    /\ UNCHANGED <<graph_vars, visited, ts, engine, made>>

\* the caller takes the result (or the exception); the locals are gone
FindPathReturn ==
    /\ fp.pc \in {"done", "raised"}
    /\ fp' = FpIdle
    /\ UNCHANGED <<graph_vars, visited, ts, engine, made>>

\* ------------------------------------------------------------------------
\* utils.py: topological_sort and visit, one read of a marker per step

\* (note is history that no code reads: "stale" for a call that found the
\* marker of a requested layer set by an earlier call, "overlapped" for a call
\* that ran while another invocation was running, "amid" for a call entered
\* in the middle of a find_path)
TsIdle == [pc |-> "idle", layers |-> <<>>, i |-> 0, frames |-> <<>>,
           stack |-> <<>>, result |-> <<>>, note |-> ""]

\* visit without "layer.visited = True": a recursion deeper than there are
\* layers goes on until the interpreter raises RecursionError
EnterVisit_mut(p, base, layer) ==
    /\ ts' = IF Len(base[p].frames) > Cardinality(Names)
             THEN [base EXCEPT ![p].pc = "raised"]
             ELSE [base EXCEPT
                      ![p].frames = Append(@, [layer |-> layer, j |-> 1]),
                      ![p].pc = "visit"]
    /\ visited' = visited

\* the call visit(layer, stack) up to its loop: a new frame on the call stack
\* of p (whose other locals are as in base), and the marker of the layer set
EnterVisit(p, base, layer) ==
    /\ ts' = [base EXCEPT ![p].frames = Append(@, [layer |-> layer, j |-> 1]),
                          ![p].pc = "visit"]
    /\ visited' = [visited EXCEPT ![layer] = "True"]

\* topological_sort entered without "layer.visited = False"
TopologicalSortEnter_mut(p, base, layers, note) ==
    /\ ts[p].pc = "idle"
    /\ Range(layers) \subseteq net_layers
    /\ visited' = visited
    /\ ts' = [base EXCEPT ![p] = [TsIdle EXCEPT !.pc = "for", !.note = note,
                                                !.layers = layers, !.i = 1]]
    /\ UNCHANGED <<graph_vars, fp, engine, made>>

\* topological_sort(net, layers) is entered by p (the locals of the other
\* invocations are as in base): every layer of the network has its marker
\* cleared, the stack is empty
TopologicalSortEnter(p, base, layers, note) ==
    /\ ts[p].pc = "idle"
    /\ Range(layers) \subseteq net_layers
    /\ visited' = [n \in Names |->
                      IF n \in net_layers THEN "False" ELSE visited[n]]
    /\ ts' = [base EXCEPT ![p] = [TsIdle EXCEPT !.pc = "for", !.note = note,
                                                !.layers = layers, !.i = 1]]
    /\ UNCHANGED <<graph_vars, fp, engine, made>>

\* topological_sort(net, layers) is called while no find_path is under way
TopologicalSortCall(p, layers) ==
    /\ fp.pc = "idle"
    /\ TopologicalSortEnter(p, ts, layers, "")

\* the same call, by a caller that made other calls before
TopologicalSortCallAgain(p, layers) ==
    /\ fp.pc = "idle"
    /\ TopologicalSortEnter(p, ts, layers,
                            IF \E n \in Range(layers) : visited[n] = "True"
                            THEN "stale" ELSE "")

\* the same call, made whether or not a find_path is under way
TopologicalSortCallAmid(p, layers) ==
    TopologicalSortEnter(p, ts, layers,
                         IF fp.pc \in {"while", "if_found", "walk"}
                         THEN "amid" ELSE "")

\* the same call, by a thread that does not wait for the invocations of the
\* other threads (the threads are numbered in the order of their calls)
TopologicalSortCallDuring(p, layers) ==
    LET Running(q) == ts[q].pc \in {"for", "visit"}
    IN /\ fp.pc = "idle"
       /\ \A q \in Procs : q < p => ts[q].pc # "idle"
       /\ TopologicalSortEnter(p,
              [q \in Procs |-> IF Running(q)
                               THEN [ts[q] EXCEPT !.note = "overlapped"]
                               ELSE ts[q]],
              layers,
              IF \E q \in Procs : Running(q) THEN "overlapped" ELSE "")

\* the loop over the requested layers without its test "not layer.visited"
TopologicalSortFor_mut(p) ==
    /\ ts[p].pc = "for"
    /\ IF ts[p].i > Len(ts[p].layers)
       THEN /\ ts' = [ts EXCEPT ![p].result = Reverse(ts[p].stack),
                                ![p].pc = "done"]
            /\ visited' = visited
       ELSE EnterVisit(p, ts, ts[p].layers[ts[p].i])
    /\ UNCHANGED <<graph_vars, fp, engine, made>>

\* one iteration of "for layer in layers", up to the call of visit; after the
\* last one, the stack is reversed and returned
TopologicalSortFor(p) ==
    /\ ts[p].pc = "for"
    /\ IF ts[p].i > Len(ts[p].layers)
       THEN /\ ts' = [ts EXCEPT ![p].result = Reverse(ts[p].stack),
                                ![p].pc = "done"]
            /\ visited' = visited
       ELSE LET layer == ts[p].layers[ts[p].i]
            IN IF visited[layer] # "True"
               THEN EnterVisit(p, ts, layer)
               ELSE /\ ts' = [ts EXCEPT ![p].i = @ + 1]
                    /\ visited' = visited
    /\ UNCHANGED <<graph_vars, fp, engine, made>>

\* visit appending its layer to the stack when an outgoing layer is found
\* visited and not after the loop
Visit_mut(p) ==
    /\ ts[p].pc = "visit"
    /\ LET d == Len(ts[p].frames)
           f == ts[p].frames[d]
           out == outgoing_connections[f.layer]
       IN IF f.j <= Len(out)
          THEN LET outgoing_layer == out[f.j]
                   stepped == [ts EXCEPT ![p].frames[d].j = @ + 1]
               IN IF visited[outgoing_layer] # "True"
                  THEN EnterVisit(p, stepped, outgoing_layer)
                  ELSE /\ ts' = [stepped EXCEPT ![p].stack = Append(@, f.layer)]
                       /\ visited' = visited
          ELSE /\ ts' = [ts EXCEPT
                           ![p].frames = SubSeq(@, 1, d - 1),
                           ![p].pc = IF d = 1 THEN "for" ELSE "visit",
                           ![p].i = IF d = 1 THEN @ + 1 ELSE @]
               /\ visited' = visited
    /\ UNCHANGED <<graph_vars, fp, engine, made>>

\* one iteration of "for outgoing_layer in layer.outgoing_connections" of the
\* innermost visit, up to the recursive call; after the last one the layer is
\* appended to the stack and visit returns to its caller
Visit(p) ==
    /\ ts[p].pc = "visit"
    /\ LET d == Len(ts[p].frames)
           f == ts[p].frames[d]
           out == outgoing_connections[f.layer]
       IN IF f.j <= Len(out)
          THEN LET outgoing_layer == out[f.j]
                   stepped == [ts EXCEPT ![p].frames[d].j = @ + 1]
               IN IF visited[outgoing_layer] # "True"
                  THEN EnterVisit(p, stepped, outgoing_layer)
                  ELSE /\ ts' = stepped
                       /\ visited' = visited
          ELSE /\ ts' = [ts EXCEPT
                           ![p].stack = Append(@, f.layer),
                           ![p].frames = SubSeq(@, 1, d - 1),
                           ![p].pc = IF d = 1 THEN "for" ELSE "visit",
                           ![p].i = IF d = 1 THEN @ + 1 ELSE @]
               /\ visited' = visited
    /\ UNCHANGED <<graph_vars, fp, engine, made>>

\* the caller takes the sorted list; the locals are gone, the markers stay
TopologicalSortReturn(p) ==
    /\ ts[p].pc = "done"
    /\ ts' = [ts EXCEPT ![p] = TsIdle]
    /\ UNCHANGED <<graph_vars, visited, fp, engine, made>>

\* ------------------------------------------------------------------------
\* Python values of the shape engine: every value is a record of one shape,
\* so that any two of them compare as Python's == does on the originals

Val(k, a, n, items) == [k |-> k, a |-> a, n |-> n, items |-> items]
\* a class: numbers.Number, str, NoneType
Class(a) == Val("class", a, 0, <<>>)
\* the value None
None == Val("None", "", 0, <<>>)
\* an int
PyInt(n) == Val("int", "", n, <<>>)
\* a str of one character
Str(a) == Val("str", a, 0, <<>>)
\* the bool True
Bool == Val("bool", "", 1, <<>>)
List(items) == Val("list", "", 0, items)
Tuple(items) == Val("tuple", "", 0, items)
\* the call raised the exception a instead of returning
Raised(a) == Val("raise", a, 0, <<>>)

IsRaised(v) == v.k = "raise"

\* [f(x) for x in items], f given as the list of its values; an exception
\* raised for one element is the outcome of the comprehension
Comprehension(values) ==
    IF \E i \in 1..Len(values) : IsRaised(values[i])
    THEN values[CHOOSE i \in 1..Len(values) :
                    /\ IsRaised(values[i])
                    /\ \A j \in 1..(i - 1) : ~IsRaised(values[j])]
    ELSE List(values)

\* ------------------------------------------------------------------------
\* numpy: np.asarray(item) of a non-empty list

\* the dimensions numpy discovers: a str counts as a scalar, an empty list
\* as a dimension of 0; ok is FALSE for a list whose elements differ in
\* dimensions (a ragged list)
RECURSIVE ArrayShape(_)
ArrayShape(x) ==
    IF x.k # "list" THEN [ok |-> TRUE, dims |-> <<>>]
    ELSE IF x.items = <<>> THEN [ok |-> TRUE, dims |-> <<0>>]
    ELSE LET subs == [i \in 1..Len(x.items) |-> ArrayShape(x.items[i])]
         IN IF \A i \in 1..Len(x.items) :
                   subs[i].ok /\ subs[i].dims = subs[1].dims
            THEN [ok |-> TRUE, dims |-> <<Len(x.items)>> \o subs[1].dims]
            ELSE [ok |-> FALSE, dims |-> <<>>]

\* the kinds of the scalars in x
RECURSIVE LeafKinds(_)
LeafKinds(x) ==
    IF x.k # "list" THEN {x.k}
    ELSE UNION {LeafKinds(x.items[i]) : i \in 1..Len(x.items)}

\* dtype.kind of the array: any other object makes it object, else any str
\* makes it unicode, else any number makes it numeric, else the bools make it
\* bool; an array without elements is float64
ArrayKind(x) ==
    LET ks == LeafKinds(x)
    IN IF "None" \in ks THEN "O"
       ELSE IF "str" \in ks THEN "U"
       ELSE IF "int" \in ks THEN "i"
       ELSE IF "bool" \in ks THEN "b"
       ELSE "f"

\* array is None (np.asarray raised on the ragged list; older numpy returns
\* an object array instead, which takes the same branch of types), or the
\* dtype kind and the shape of the array
AsArray(item) ==
    LET sh == ArrayShape(item)
    IN IF sh.ok THEN [isNone |-> FALSE, kind |-> ArrayKind(item), shape |-> sh.dims]
       ELSE [isNone |-> TRUE, kind |-> "O", shape |-> <<>>]

\* ------------------------------------------------------------------------
\* utils.py: atype, format_collapse, types

atype(dtype_kind) ==
    IF dtype_kind \in {"i", "f", "u"} THEN Class("Number")
    ELSE IF dtype_kind \in {"U", "S"} THEN Class("str")
    ELSE Str(dtype_kind)

\* format_collapse taking the dimensions from the front
RECURSIVE format_collapse_mut(_, _)
format_collapse_mut(ttype, dims) ==
    IF Len(dims) = 0 THEN Raised("IndexError")
    ELSE IF Len(dims) = 1 THEN List(<<ttype, PyInt(dims[1])>>)
    ELSE format_collapse_mut(List(<<ttype, PyInt(dims[1])>>), Tail(dims))

\* [[[ttype, dims[-1]], dims[-2]], ...]: the innermost dimension is paired
\* first; an empty dims has no dims[-1]
RECURSIVE format_collapse(_, _)
format_collapse(ttype, dims) ==
    IF Len(dims) = 0 THEN Raised("IndexError")
    ELSE IF Len(dims) = 1 THEN List(<<ttype, PyInt(dims[1])>>)
    ELSE format_collapse(List(<<ttype, PyInt(dims[Len(dims)])>>),
                         SubSeq(dims, 1, Len(dims) - 1))

RECURSIVE types(_)
types(item) ==
    IF item.k \in {"int", "bool"} THEN Class("Number")
    ELSE IF item.k = "None" THEN Class("NoneType")
    ELSE IF item.k = "str" THEN Class("str")
    ELSE IF item.items = <<>> THEN List(<<None, PyInt(0)>>)
    ELSE LET array == AsArray(item)
         IN IF array.isNone \/ array.kind = "O"
            THEN Comprehension([i \in 1..Len(item.items) |-> types(item.items[i])])
            ELSE format_collapse(atype(array.kind), array.shape)

\* ------------------------------------------------------------------------
\* utils.py: all_same, is_collapsed, collapse, get_form

all_same(items) ==
    /\ Len(items) > 0
    /\ \A i \in 2..Len(items) : items[1] = items[i]

\* len(item) == 2, item[0] a class and item[1] a number; anything without a
\* len (and a str of one character) is not collapsed
is_collapsed(item) ==
    /\ item.k \in {"list", "tuple"}
    /\ Len(item.items) = 2
    /\ item.items[1].k = "class"
    /\ item.items[2].k \in {"int", "bool"}

\* collapse pairing the first element as given, item[0], with the length
RECURSIVE collapse_mut(_)
collapse_mut(item) ==
    IF is_collapsed(item) THEN item
    ELSE IF item.k \in {"class", "None", "int", "bool", "raise"} THEN item
    ELSE IF item.k = "str" THEN Raised("RecursionError")
    ELSE LET items == Comprehension([i \in 1..Len(item.items) |->
                                        collapse_mut(item.items[i])])
         IN IF IsRaised(items) THEN items
            ELSE IF all_same(items.items)
                 THEN List(<<item.items[1], PyInt(Len(item.items))>>)
                 ELSE items

\* a value without a len is returned as it is; a str of one character is a
\* sequence of itself, on which the recursion never ends (RecursionError)
RECURSIVE collapse(_)
collapse(item) ==
    IF is_collapsed(item) THEN item
    ELSE IF item.k \in {"class", "None", "int", "bool", "raise"} THEN item
    ELSE IF item.k = "str" THEN Raised("RecursionError")
    ELSE LET items == Comprehension([i \in 1..Len(item.items) |->
                                        collapse(item.items[i])])
         IN IF IsRaised(items) THEN items
            ELSE IF all_same(items.items)
                 THEN List(<<items.items[1], PyInt(Len(item.items))>>)
                 ELSE items

get_form(item) == collapse(types(item))

\* ------------------------------------------------------------------------
\* utils.py: get_shape, shape

\* isinstance(v, (np.dtype, numbers.Number, type))
IsTypeOrNumber(v) == v.k \in {"class", "int", "bool"}

RECURSIVE get_shape(_)
get_shape(form) ==
    IF /\ form.k = "list"
       /\ Len(form.items) = 2
       /\ form.items[2].k \in {"int", "bool"}
    THEN IF IsTypeOrNumber(form.items[1])
         THEN Tuple(<<form.items[1], List(<<form.items[2]>>)>>)
         ELSE LET f == get_shape(form.items[1])
              IN IF f.k = "tuple"
                 THEN Tuple(<<f.items[1], List(<<form.items[2]>> \o f.items[2].items)>>)
                 ELSE Tuple(<<List([i \in 1..2 |-> get_shape(form.items[i])]),
                              List(<<PyInt(2)>>)>>)
    ELSE IF form.k = "list"
    THEN Tuple(<<List([i \in 1..Len(form.items) |-> get_shape(form.items[i])]),
                 List(<<PyInt(Len(form.items))>>)>>)
    ELSE Tuple(<<form, List(<<PyInt(0)>>)>>)

\* tuple(v[1]) for an element v of s
SecondAsTuple(v) ==
    IF v.k \in {"list", "tuple"} /\ Len(v.items) >= 2
       /\ v.items[2].k \in {"list", "tuple"}
    THEN Tuple(v.items[2].items)
    ELSE Raised("TypeError")

shape(item) ==
    LET form == get_form(item)
        s == get_shape(form)
    IN IF IsRaised(form) THEN form
       ELSE IF /\ s.k = "tuple"
               /\ Len(s.items) = 2
               /\ \A i \in 1..Len(s.items[2].items) :
                      IsTypeOrNumber(s.items[2].items[i])
       THEN Tuple(s.items[2].items)
       ELSE Comprehension([i \in 1..Len(s.items) |-> SecondAsTuple(s.items[i])])

\* ------------------------------------------------------------------------
\* layers.py: Layer.__init__ with its shape argument; utils.py: valid_shape

\* isinstance(n, numbers.Integral) and n > 0, or n is None
PositiveOrNone(n) == (n.k = "int" /\ n.n > 0) \/ n.k = "None"

valid_shape(x) ==
    \/ x.k = "int" /\ x.n > 0
    \/ x.k = "None"
    \/ /\ x.k \in {"tuple", "list"}
       /\ Len(x.items) > 0
       /\ \A i \in 1..Len(x.items) : PositiveOrNone(x.items[i])

\* operator.mul on two entries of a shape: None has no product
Mul(a, b) ==
    IF IsRaised(a) THEN a
    ELSE IF a.k = "int" /\ b.k = "int" THEN PyInt(a.n * b.n)
    ELSE Raised("TypeError")

\* reduce(operator.mul, shape): None is not iterable; a sequence of one entry
\* is that entry, multiplied with nothing
RECURSIVE ReduceMul(_, _)
ReduceMul(acc, rest) ==
    IF rest = <<>> THEN acc ELSE ReduceMul(Mul(acc, Head(rest)), Tail(rest))

Reduce(x) ==
    IF x.k \notin {"tuple", "list"} \/ x.items = <<>> THEN Raised("TypeError")
    ELSE ReduceMul(Head(x.items), Tail(x.items))

\* no constructor call yet
NotMade == [name |-> "", arg |-> None, raised |-> "", shape |-> None,
            size |-> None]

\* what Layer(name, shape) raises, "" when it returns: BaseLayer.__init__
\* tests the name, Layer.__init__ the shape, and the size is computed
LayerRaises(name, x) ==
    IF name = "" THEN "bad layer name"
    ELSE IF ~valid_shape(x) THEN "bad shape"
    ELSE IF x.k # "int" /\ IsRaised(Reduce(x)) THEN Reduce(x).a
    ELSE ""

\* Layer(name, shape), without keyword parameters, and on success the
\* registration of the new layer in the network
LayerInit(name, x) ==
    /\ name \notin net_layers
    /\ \A p \in Procs : ts[p].pc = "idle"
    /\ fp.pc = "idle"
    /\ LET r == LayerRaises(name, x)
       IN /\ made' = [name |-> name, arg |-> x, raised |-> r,
                      shape |-> IF r # "" THEN None
                                ELSE IF x.k = "int" THEN Tuple(<<x>>) ELSE x,
                      size |-> IF r # "" THEN None
                               ELSE IF x.k = "int" THEN x ELSE Reduce(x)]
          /\ IF r = ""
             THEN /\ net_layers' = net_layers \cup {name}
                  /\ incoming_connections' =
                         [incoming_connections EXCEPT ![name] = <<>>]
                  /\ outgoing_connections' =
                         [outgoing_connections EXCEPT ![name] = <<>>]
                  /\ visited' = [visited EXCEPT ![name] = "unset"]
             ELSE UNCHANGED <<graph_vars, visited>>
    /\ UNCHANGED <<ts, fp, engine>>

\* the values handed over as a shape: None, integers, a text, and the tuples
\* and lists of up to n entries
ShapeEntries == {None, PyInt(0), PyInt(2), Str("s")}

ShapeArgs(n) ==
    {None, PyInt(-1), PyInt(0), PyInt(1), PyInt(2), Str("s")}
        \cup {Tuple(e) : e \in SeqsUpTo(ShapeEntries, n)}
        \cup {List(e) : e \in SeqsUpTo(ShapeEntries, n)}

\* ------------------------------------------------------------------------
\* The inputs of the shape engine

\* the nested lists over the scalars `leaves`, by number of nodes: T[k] is
\* the set of those of k nodes (S[m]: the sequences of them of m nodes in
\* all); with `counts`, a list may also be a pair [form, count]
RECURSIVE NestedBySize(_, _, _, _, _)
NestedBySize(leaves, counts, n, T, S) ==
    IF Len(T) >= n THEN T
    ELSE LET j == Len(T)
             Sj == UNION {{<<x>> \o rest :
                              x \in T[k],
                              rest \in IF j = k THEN {<<>>} ELSE S[j - k]} :
                          k \in 1..j}
             pairs == IF j = 1 THEN {}
                      ELSE {List(<<x, PyInt(c)>>) : x \in T[j - 1], c \in counts}
         IN NestedBySize(leaves, counts, n,
                         Append(T, {List(items) : items \in Sj} \cup pairs),
                         Append(S, Sj))

\* the nested lists of at most n nodes
Nested(leaves, counts, n) ==
    LET T == NestedBySize(leaves, counts, n, <<leaves \cup {List(<<>>)}>>, <<>>)
    IN UNION {T[k] : k \in 1..n}

\* the rectangular list of numbers with the dimensions dims, outermost first
RECURSIVE Rectangular(_)
Rectangular(dims) ==
    IF dims = <<>> THEN PyInt(1)
    ELSE List([i \in 1..Head(dims) |-> Rectangular(Tail(dims))])

\* the dimensions of up to `rank` sizes, each at most `dim`
RectangularDims(rank, dim) == UNION {[1..k -> 1..dim] : k \in 1..rank}

\* [[1], [2, 3]], the ragged list of the documentation
RaggedExample ==
    List(<<List(<<PyInt(1)>>), List(<<PyInt(1), PyInt(1)>>)>>)

\* nested data: numbers, text, bools and None in lists of any form of at
\* most n nodes, and the rectangular lists of numbers
DataItems(n, rank, dim) ==
    Nested({PyInt(1), Str("s"), Bool, None}, {}, n)
        \cup {Rectangular(dims) : dims \in RectangularDims(rank, dim)}
        \cup {RaggedExample}

\* structures of types: classes and None in lists of any form of at most n
\* nodes, with pairs [form, count] anywhere
Structures(n) ==
    Nested({Class("Number"), Class("str"), None}, {0, 1, 2}, n)

\* ------------------------------------------------------------------------
\* Calls of the shape engine by a caller that may pass a result on

EngineIdle == [item |-> None, input |-> "none", arg |-> None, from |-> "none",
               op |-> "none", result |-> None]

Returned(op, result) == [engine EXCEPT !.op = op, !.result = result]

Types ==
    /\ engine.op = "none"
    /\ engine.input = "data" /\ engine.from = "input"
    /\ engine' = Returned("types", types(engine.arg))
    /\ UNCHANGED <<graph_vars, visited, ts, fp, made>>

Collapse ==
    /\ engine.op = "none"
    /\ \/ engine.input = "structure" /\ engine.from = "input"
       \/ engine.from \in {"types", "collapse", "get_form"}
    /\ engine' = Returned("collapse", collapse(engine.arg))
    /\ UNCHANGED <<graph_vars, visited, ts, fp, made>>

GetForm ==
    /\ engine.op = "none"
    /\ engine.input = "data" /\ engine.from = "input"
    /\ engine' = Returned("get_form", get_form(engine.arg))
    /\ UNCHANGED <<graph_vars, visited, ts, fp, made>>

GetShape ==
    /\ engine.op = "none"
    /\ engine.from = "get_form"
    /\ engine' = Returned("get_shape", get_shape(engine.arg))
    /\ UNCHANGED <<graph_vars, visited, ts, fp, made>>

Shape ==
    /\ engine.op = "none"
    /\ engine.input = "data" /\ engine.from = "input"
    /\ engine' = Returned("shape", shape(engine.arg))
    /\ UNCHANGED <<graph_vars, visited, ts, fp, made>>

\* the caller hands the value a call returned to the next call
Pass ==
    /\ \/ engine.from = "input" /\ engine.op \in {"types", "collapse", "get_form"}
       \/ engine.from = "types" /\ engine.op = "collapse"
    /\ ~IsRaised(engine.result)
    /\ engine' = [engine EXCEPT !.arg = engine.result, !.from = engine.op,
                                !.op = "none", !.result = None]
    /\ UNCHANGED <<graph_vars, visited, ts, fp, made>>

\* ------------------------------------------------------------------------
\* The network used from one thread: one query at a time

vars == <<net_layers, incoming_connections, outgoing_connections, visited,
          ts, fp, engine, made>>

Init ==
    /\ net_layers = {}
    /\ incoming_connections = [n \in Names |-> <<>>]
    /\ outgoing_connections = [n \in Names |-> <<>>]
    /\ visited = [n \in Names |-> "unset"]
    /\ ts = [p \in Procs |-> TsIdle]
    /\ fp = FpIdle
    /\ engine = EngineIdle
    /\ made = NotMade

Next ==
    \/ \E name \in Names : AddLayer(name)
    \/ \E from \in Names, to \in Names : Connect(from, to)
    \/ \E layers \in SeqsUpTo(Names, MaxLayers) : TopologicalSortCall(1, layers)
    \/ TopologicalSortFor(1)
    \/ Visit(1)
    \/ TopologicalSortReturn(1)

Spec == Init /\ [][Next]_vars

\* The network while it is built
NextGraph ==
    \/ \E name \in Names : AddLayer(name)
    \/ \E from \in Names, to \in Names : Connect(from, to)

SpecGraph == Init /\ [][NextGraph]_vars

\* A network of few connections
ConnectFew(from, to) ==
    /\ NumConnections < MaxSharedConnections
    /\ Connect(from, to)

\* The network sorted again and again from one thread
NextSeq ==
    \/ \E name \in Names : AddLayer(name)
    \/ \E from \in Names, to \in Names : ConnectFew(from, to)
    \/ \E layers \in SeqsUpTo(Names, MaxLayers) :
           TopologicalSortCallAgain(1, layers)
    \/ TopologicalSortFor(1)
    \/ Visit(1)
    \/ TopologicalSortReturn(1)

SpecSeq == Init /\ [][NextSeq]_vars

\* The network of few connections sorted by a caller that runs every call to
\* its return: a call of topological_sort that can take a step takes it
NextFew ==
    \/ \E name \in Names : AddLayer(name)
    \/ \E from \in Names, to \in Names : ConnectFew(from, to)
    \/ \E layers \in SeqsUpTo(Names, MaxLayers) : TopologicalSortCall(1, layers)
    \/ TopologicalSortFor(1)
    \/ Visit(1)
    \/ TopologicalSortReturn(1)

SpecFew == Init /\ [][NextFew]_vars

FairSpecFew ==
    /\ SpecFew
    /\ WF_vars(TopologicalSortFor(1))
    /\ WF_vars(Visit(1))

\* The network sorted once by each of two threads that do not wait for each
\* other, with the two results kept
ConnectOnce(from, to) ==
    /\ NumConnections < MaxConcConnections
    /\ Connect(from, to)

NextConc ==
    \/ \E name \in ConcNames : AddLayer(name)
    \/ \E from \in ConcNames, to \in ConcNames : ConnectOnce(from, to)
    \/ \E p \in Procs, layers \in SeqsUpTo(ConcNames, MaxConcLayers) :
           TopologicalSortCallDuring(p, layers)
    \/ \E p \in Procs : TopologicalSortFor(p)
    \/ \E p \in Procs : Visit(p)

SpecConc == Init /\ [][NextConc]_vars

\* The network sorted and searched for paths at a time
NextMixed ==
    \/ \E name \in ConcNames : AddLayer(name)
    \/ \E from \in ConcNames, to \in ConcNames : ConnectOnce(from, to)
    \/ \E layers \in SeqsUpTo(ConcNames, MaxConcLayers) :
           TopologicalSortCallAmid(1, layers)
    \/ TopologicalSortFor(1)
    \/ Visit(1)
    \/ TopologicalSortReturn(1)
    \/ \E s \in ConcNames, e \in ConcNames : FindPathEnter(s, e)
    \/ FindPathWhile
    \/ FindPathIfFound
    \/ FindPathWalk
    \/ FindPathReturn

SpecMixed == Init /\ [][NextMixed]_vars

\* The network built by calls of the constructor with any name and shape
NextLayer ==
    \E name \in Names \cup {""}, x \in ShapeArgs(MaxShapeLen) : LayerInit(name, x)

SpecLayer == Init /\ [][NextLayer]_vars

\* The same network queried for paths
NextPath ==
    \/ \E name \in Names : AddLayer(name)
    \/ \E from \in Names, to \in Names : Connect(from, to)
    \/ \E s \in Names, e \in Names : FindPathCall(s, e)
    \/ FindPathWhile
    \/ FindPathIfFound
    \/ FindPathWalk
    \/ FindPathReturn

SpecPath == Init /\ [][NextPath]_vars

\* a call of find_path that can take a step takes it: the interpreter runs
\* the function to its return
FairSpecPath ==
    /\ SpecPath
    /\ WF_vars(FindPathWhile)
    /\ WF_vars(FindPathIfFound)
    /\ WF_vars(FindPathWalk)

\* The shape engine called on any nested data, and collapse on any structure
\* of types
InitForm ==
    /\ net_layers = {}
    /\ incoming_connections = [n \in Names |-> <<>>]
    /\ outgoing_connections = [n \in Names |-> <<>>]
    /\ visited = [n \in Names |-> "unset"]
    /\ ts = [p \in Procs |-> TsIdle]
    /\ fp = FpIdle
    /\ made = NotMade
    /\ \/ \E x \in DataItems(MaxSize, MaxRank, MaxDim) :
              engine = [EngineIdle EXCEPT !.item = x, !.input = "data",
                                          !.arg = x, !.from = "input"]
       \/ \E x \in Structures(MaxStructSize) :
              engine = [EngineIdle EXCEPT !.item = x, !.input = "structure",
                                          !.arg = x, !.from = "input"]

NextForm ==
    \/ Types
    \/ Collapse
    \/ GetForm
    \/ GetShape
    \/ Shape
    \/ Pass

SpecForm == InitForm /\ [][NextForm]_vars

\* ------------------------------------------------------------------------
\* The connection graph, read off the outgoing lists

\* the connections u -> v
Edges == {e \in Names \X Names : e[2] \in Range(outgoing_connections[e[1]])}

\* the ends of the connections of E that start in S
Successors(E, S) == {e[2] : e \in {d \in E : d[1] \in S}}

\* the names at the end of a chain of exactly k connections of E from S
RECURSIVE Within(_, _, _)
Within(E, S, k) == IF k = 0 THEN S ELSE Successors(E, Within(E, S, k - 1))

\* the lengths of the chains of connections from s to e (up to |Names|: a
\* shortest chain repeats no name)
ChainLengths(s, e) == {k \in 0..Cardinality(Names) : e \in Within(Edges, {s}, k)}

Reachable(s, e) == ChainLengths(s, e) # {}

\* the least number of connections on a chain from s to e
Dist(s, e) == CHOOSE k \in ChainLengths(s, e) : \A m \in ChainLengths(s, e) : k <= m

\* the connections with both ends in S contain no cycle
AcyclicOn(S) ==
    LET E == {e \in Edges : e[1] \in S /\ e[2] \in S}
    IN \A n \in S : \A k \in 1..Cardinality(Names) : n \notin Within(E, {n}, k)

\* s lists a chain of connections that starts after `from`
IsChain(from, s) ==
    \A i \in 1..Len(s) : <<IF i = 1 THEN from ELSE s[i - 1], s[i]>> \in Edges

\* every occurrence of u in s is before every occurrence of v, and both occur
Before(s, u, v) ==
    /\ u \in Range(s)
    /\ v \in Range(s)
    /\ \A i, j \in 1..Len(s) : s[i] = u /\ s[j] = v => i < j

Occurrences(s, x) == Cardinality({i \in 1..Len(s) : s[i] = x})

\* ------------------------------------------------------------------------
\* Claims about topological_sort

\* C1: whenever the connections among the requested layers form no cycle,
\* the list topological_sort returns has each requested layer u before every
\* requested layer v with a connection u -> v.
C1_OrderWithinSubset ==
    (ts[1].pc = "done" /\ AcyclicOn(Range(ts[1].layers)))
        => \A u, v \in Range(ts[1].layers) :
               <<u, v>> \in Edges => Before(ts[1].result, u, v)

\* C2: on a network without cycles, every requested layer occurs exactly once
\* in the list topological_sort returns, in whatever order (and however often)
\* the layers were requested.
C2_EachRequestedOnce ==
    (ts[1].pc = "done" /\ AcyclicOn(net_layers))
        => \A n \in Range(ts[1].layers) : Occurrences(ts[1].result, n) = 1

\* a sort has returned for a request that lists a layer before one of its
\* sources, on a network without cycles
C2_Witness ==
    /\ ts[1].pc = "done"
    /\ AcyclicOn(net_layers)
    /\ Len(ts[1].layers) = 2
    /\ <<ts[1].layers[2], ts[1].layers[1]>> \in Edges
    /\ Cardinality(Edges) >= 2

\* C15: topological_sort visits and returns only requested layers: a layer
\* that was not requested is never the layer of a call of visit, is never
\* appended to the stack and is not in the returned list, also when a
\* requested layer has a connection to it.
C15_OnlyRequestedLayers ==
    ts[1].pc # "idle"
        => /\ \A d \in 1..Len(ts[1].frames) :
                  ts[1].frames[d].layer \in Range(ts[1].layers)
           /\ Range(ts[1].stack) \subseteq Range(ts[1].layers)
           /\ Range(ts[1].result) \subseteq Range(ts[1].layers)

\* the list topological_sort builds from markers that are all clear:
\* VisitFrom is visit, VisitEach one of the two loops over a list of layers
RECURSIVE VisitFrom(_, _), VisitEach(_, _)
VisitFrom(layer, t) ==
    LET u == VisitEach(outgoing_connections[layer],
                       [t EXCEPT !.marked = @ \cup {layer}])
    IN [u EXCEPT !.stack = Append(@, layer)]

VisitEach(list, t) ==
    IF list = <<>> THEN t
    ELSE VisitEach(Tail(list), IF Head(list) \in t.marked THEN t
                               ELSE VisitFrom(Head(list), t))

FreshSort(layers) == Reverse(VisitEach(layers, [marked |-> {}, stack |-> <<>>]).stack)

\* C16: in any sequence of calls on one network, the list a call of
\* topological_sort returns is the list the connections and its own request
\* give from clear markers, whatever markers the earlier calls left.
C16_NoMarkerLeak ==
    ts[1].pc = "done" => ts[1].result = FreshSort(ts[1].layers)

\* a call has returned a list with a layer whose marker an earlier call had
\* left set
C16_Witness ==
    /\ ts[1].pc = "done"
    /\ ts[1].note = "stale"
    /\ Len(ts[1].result) >= 2

\* C17 as claimed: a call of topological_sort whose requested layers have a
\* cycle among their connections (a layer connected to itself included) never
\* returns.
C17_CycleNeverReturns ==
    ts[1].pc = "done" => AcyclicOn(Range(ts[1].layers))

\* C17 as amended: a call of topological_sort whose requested layers have a
\* cycle among their connections returns all the same, and its list holds
\* every requested layer exactly once.
C17_CycleStillReturns ==
    /\ (ts[1].pc \in {"for", "visit"} /\ ~AcyclicOn(Range(ts[1].layers)))
           ~> (ts[1].pc = "done")
    /\ [](ts[1].pc = "done" /\ ~AcyclicOn(Range(ts[1].layers))
              => \A n \in Range(ts[1].layers) : Occurrences(ts[1].result, n) = 1)

\* a call has returned for two requested layers that are connected in a circle
C17_Witness ==
    /\ ts[1].pc = "done"
    /\ \E u, v \in Range(ts[1].layers) :
           u # v /\ <<u, v>> \in Edges /\ <<v, u>> \in Edges
    /\ Len(ts[1].result) = 2

\* the list misses a requested layer, holds a layer twice, or holds a layer
\* after one that it connects to
WrongOrder(layers, result) ==
    \/ \E n \in Range(layers) : n \notin Range(result)
    \/ \E n \in Range(result) : Occurrences(result, n) > 1
    \/ \E i, j \in 1..Len(result) : i < j /\ <<result[j], result[i]>> \in Edges

\* C18: on a network without cycles, an invocation of topological_sort that
\* ran with no other invocation running returns a correct order (every
\* requested layer, no layer twice, every layer before the layers it connects
\* to); one that overlapped with another invocation may return a wrong one,
\* as the reachable state C18_Witness shows.
C18_SerializedCallsAreCorrect ==
    \A p \in Procs :
        (ts[p].pc = "done" /\ ts[p].note # "overlapped" /\ AcyclicOn(net_layers))
            => ~WrongOrder(ts[p].layers, ts[p].result)

\* both invocations have returned for the same request after their steps
\* interleaved, one with a wrong order and one with a correct order
C18_Witness ==
    /\ AcyclicOn(net_layers)
    /\ ts[1].pc = "done" /\ ts[2].pc = "done"
    /\ ts[1].note = "overlapped" /\ ts[2].note = "overlapped"
    /\ ts[1].layers = ts[2].layers
    /\ WrongOrder(ts[1].layers, ts[1].result)
    /\ ~WrongOrder(ts[2].layers, ts[2].result)

\* ------------------------------------------------------------------------
\* Claims about find_path

\* C3: when a chain of connections leads from start to end, find_path returns
\* such a chain, and no chain from start to end has fewer connections.
C3_ShortestPath ==
    (fp.pc = "done" /\ Reachable(fp.start, fp.end))
        => /\ fp.result # Absent
           /\ IsChain(fp.start, fp.result)
           /\ Len(fp.result) = Dist(fp.start, fp.end)

\* find_path has returned the direct connection where a longer chain through
\* a third layer also leads to the end (a merge)
C3_Witness ==
    /\ fp.pc = "done"
    /\ fp.start # fp.end
    /\ fp.result = <<fp.end>>
    /\ \E m \in Names \ {fp.start, fp.end} :
           <<fp.start, m>> \in Edges /\ <<m, fp.end>> \in Edges

\* C4: find_path never raises, it returns None exactly when no chain of
\* connections leads from start to end, and every call returns.
C4_NoRaiseAbsentIffUnreachable ==
    /\ [](fp.pc # "raised")
    /\ [](fp.pc = "done" => (fp.result = Absent <=> ~Reachable(fp.start, fp.end)))
    /\ [](fp.pc # "idle" => <>(fp.pc = "done"))

\* find_path has returned None on a network with a cycle that its search went
\* through
C4_Witness ==
    /\ fp.pc = "done"
    /\ fp.result = Absent
    /\ \E n \in Names \ {fp.start} :
           Reachable(fp.start, n) /\ Reachable(n, fp.start)

\* C14: when a chain of connections leads from start to a different end, the
\* list find_path returns does not hold start, ends with end, starts with a
\* layer that start connects to, and goes on from each layer to one that it
\* connects to; when start is end, the list is empty and not None.
C14_PathFromStartToEnd ==
    (fp.pc = "done" /\ Reachable(fp.start, fp.end))
        => IF fp.start # fp.end
           THEN /\ fp.result # Absent
                /\ fp.start \notin Range(fp.result)
                /\ Len(fp.result) >= 1
                /\ fp.result[Len(fp.result)] = fp.end
                /\ fp.start \in Range(incoming_connections[fp.result[1]])
                /\ \A i \in 2..Len(fp.result) :
                       fp.result[i] \in Range(outgoing_connections[fp.result[i - 1]])
           ELSE fp.result = <<>>

\* find_path has returned a list of two layers on a network where a
\* connection leads back to the start
C14_Witness ==
    /\ fp.pc = "done"
    /\ Len(fp.result) = 2
    /\ fp.result[2] = fp.end
    /\ \E n \in Range(fp.result) : <<n, fp.start>> \in Edges

\* find_path has returned the empty list for a start that is the end
C14_WitnessSame ==
    /\ fp.pc = "done"
    /\ fp.start = fp.end
    /\ fp.result = <<>>

\* C19: no step of find_path changes a connection list or a marker, and a
\* topological_sort that runs before, after or in the middle of a find_path
\* returns the list that its request gives on the connections alone.
C19_FindPathLeavesGraph ==
    /\ [][fp' # fp => UNCHANGED <<graph_vars, visited>>]_vars
    /\ [](ts[1].pc = "done" => ts[1].result = FreshSort(ts[1].layers))

\* a topological_sort of two connected layers has run from its call to its
\* return in the middle of a find_path that has searched from one of them
C19_Witness ==
    /\ ts[1].pc = "done"
    /\ ts[1].note = "amid"
    /\ Len(ts[1].result) = 2
    /\ <<ts[1].result[1], ts[1].result[2]>> \in Edges
    /\ fp.pc = "while"
    /\ fp.current \in Range(ts[1].result)

\* ------------------------------------------------------------------------
\* Claims about BaseLayer.kind

\* a connection ends at n / starts at n
HasIncoming(n) == \E m \in Names : n \in Range(outgoing_connections[m])
HasOutgoing(n) == \E m \in Names : n \in Range(incoming_connections[m])

\* C5: whatever layers were registered and connected, the kind of a layer is
\* one of four values, fixed by whether connections end at it and whether
\* connections start at it: neither - unconnected, only starting - input, only
\* ending - output, both - hidden.
C5_KindByConnections ==
    \A n \in net_layers :
        LET k == kind(incoming_connections[n], outgoing_connections[n])
        IN /\ k \in {"unconnected", "input", "output", "hidden"}
           /\ k = IF ~HasIncoming(n) /\ ~HasOutgoing(n) THEN "unconnected"
                  ELSE IF ~HasIncoming(n) THEN "input"
                  ELSE IF ~HasOutgoing(n) THEN "output"
                  ELSE "hidden"

\* a layer connected only to itself sits next to an input and an output layer
C5_Witness ==
    \E n, i, o \in net_layers :
        /\ Edges = {<<n, n>>, <<i, o>>}
        /\ kind(incoming_connections[n], outgoing_connections[n]) = "hidden"
        /\ kind(incoming_connections[i], outgoing_connections[i]) = "input"
        /\ kind(incoming_connections[o], outgoing_connections[o]) = "output"

\* ------------------------------------------------------------------------
\* Claims about the shape engine

\* C6: collapse applied to a result of collapse returns that result, whatever
\* structure of types (empty lists and [form, count] pairs included) or
\* result of types the first call was given.
C6_CollapseIdempotent ==
    (engine.op = "collapse" /\ engine.from = "collapse")
        => engine.result = engine.arg

\* collapse has been applied twice to an irregular structure with an empty
\* list in it, which the first call changed into one with a pair in it
C6_Witness ==
    /\ engine.op = "collapse" /\ engine.from = "collapse"
    /\ engine.input = "structure"
    /\ engine.arg # engine.item
    /\ \E i \in 1..Len(engine.item.items) : engine.item.items[i] = List(<<>>)
    /\ \E j \in 1..Len(engine.arg.items) : is_collapsed(engine.arg.items[j])
    /\ engine.result = engine.arg

\* the lengths met on the way down the first elements of x
RECURSIVE FirstLengths(_)
FirstLengths(x) ==
    IF x.k # "list" \/ x.items = <<>> THEN <<>>
    ELSE <<Len(x.items)>> \o FirstLengths(x.items[1])

\* C7: shape of the rectangular list of numbers with the dimensions
\* (d1, ..., dk), k >= 1 and every di >= 1, is the tuple (d1, ..., dk).
C7_RectangularShape ==
    LET dims == FirstLengths(engine.item)
    IN (engine.op = "shape" /\ dims # <<>> /\ engine.item = Rectangular(dims))
           => engine.result = Tuple([i \in 1..Len(dims) |-> PyInt(dims[i])])

\* shape has returned (2, 3) for [[1, 2, 3], [4, 5, 6]]
C7_Witness ==
    /\ engine.op = "shape"
    /\ engine.item = Rectangular(<<2, 3>>)
    /\ engine.result = Tuple(<<PyInt(2), PyInt(3)>>)

\* the elements of the list do not all have the same form
Ragged(item) ==
    /\ item.k = "list"
    /\ \E i, j \in 1..Len(item.items) :
           get_form(item.items[i]) # get_form(item.items[j])

\* C8: shape of a ragged list is a list with one dimension tuple per element,
\* in the order of the elements, [(1,), (2,)] for [[1], [2, 3]], and not one
\* dimension tuple.
C8_RaggedShapeIsList ==
    (engine.op = "shape" /\ Ragged(engine.item))
        => /\ engine.result.k = "list"
           /\ Len(engine.result.items) = Len(engine.item.items)
           /\ \A i \in 1..Len(engine.result.items) :
                  engine.result.items[i].k = "tuple"
           /\ engine.item = RaggedExample
                  => engine.result = List(<<Tuple(<<PyInt(1)>>), Tuple(<<PyInt(2)>>)>>)

\* C9: for an item that is no sequence, get_shape of its form is the pair of
\* the elemental type and an empty list of dimensions, and shape is the empty
\* tuple.
C9_ScalarShapeEmpty ==
    (engine.input = "data" /\ engine.item.k # "list")
        => /\ (engine.op = "get_shape" /\ engine.from = "get_form")
                  => engine.result = Tuple(<<engine.arg, List(<<>>)>>)
           /\ engine.op = "shape" => engine.result = Tuple(<<>>)

\* C10: for the empty list, types returns [None, 0], get_form returns the
\* same pair, and shape returns (0,).
C10_EmptySequence ==
    (engine.input = "data" /\ engine.item = List(<<>>))
        => /\ engine.op = "types" => engine.result = List(<<None, PyInt(0)>>)
           /\ engine.op = "get_form" => engine.result = List(<<None, PyInt(0)>>)
           /\ engine.op = "shape" => engine.result = Tuple(<<PyInt(0)>>)

\* C11: for a non-empty list of n elements, get_form is the pair [f, n]
\* exactly when every element has the same form f, and otherwise the list of
\* the forms of the elements in their order, which is no collapsed pair.
C11_FormOfSequence ==
    (/\ engine.op = "get_form" /\ engine.input = "data"
     /\ engine.item.k = "list" /\ engine.item.items # <<>>)
        => LET n == Len(engine.item.items)
               forms == [i \in 1..n |-> get_form(engine.item.items[i])]
           IN IF \A i \in 1..n : forms[i] = forms[1]
              THEN engine.result = List(<<forms[1], PyInt(n)>>)
              ELSE /\ engine.result = List(forms)
                   /\ ~is_collapsed(engine.result)

\* C13: on nested data (regular, ragged or empty lists of numbers, text and
\* other leaves) get_form, get_shape and shape each return a value; none of
\* them raises.
C13_EngineNeverRaises ==
    (engine.input = "data" /\ engine.op \in {"get_form", "get_shape", "shape"})
        => ~IsRaised(engine.result)

\* ------------------------------------------------------------------------
\* Claims about Layer.__init__

\* the shapes that are None, a positive integer, or a non-empty tuple whose
\* entries are each a positive integer or None
AcceptableShape(x) ==
    \/ x.k = "None"
    \/ x.k = "int" /\ x.n > 0
    \/ /\ x.k = "tuple"
       /\ Len(x.items) > 0
       /\ \A i \in 1..Len(x.items) : PositiveOrNone(x.items[i])

\* C12: a constructor call with a valid name returns a layer with two empty
\* connection lists when the shape is None, a positive integer or a non-empty
\* tuple of positive integers and Nones, and raises the bad-shape exception
\* for every other shape.
C12_LayerByShape ==
    [][\A name \in Names, x \in ShapeArgs(MaxShapeLen) :
           LayerInit(name, x)
               => IF AcceptableShape(x)
                  THEN /\ made'.raised = ""
                       /\ name \in net_layers'
                       /\ incoming_connections'[name] = <<>>
                       /\ outgoing_connections'[name] = <<>>
                  ELSE made'.raised = "bad shape"]_vars

====
